---- MODULE Spec2Model ----
(***************************************************************************)
(* A model of pip/wheel.py: Wheel tag matching, uninstallation_paths,      *)
(* WheelBuilder.build and move_wheel_files.                                *)
(*                                                                         *)
(* Python strings are sequences of one-character strings, so that          *)
(* startswith, endswith, slicing, split and the regular expressions of the *)
(* source are computed and not looked up.  A path is a sequence of         *)
(* components, each component a string; an absolute path starts with the   *)
(* component Root.                                                         *)
(***************************************************************************)
EXTENDS Naturals, Integers, Sequences, FiniteSets, TLC

VARIABLES
    \* Wheel.supported / Wheel.support_index_min
    tg_pyver, tg_abi, tg_plat, tg_tags, tg_wheel, tg_supported, tg_index, tg_called,
    \* uninstallation_paths (a generator wrapped by _unique)
    un_rows, un_i, un_pend, un_seen, un_out, un_pc,
    \* WheelBuilder.build
    bd_reqs, bd_i, bd_raised, bd_built, build_success, build_failure, bd_ret, bd_pc,
    \* move_wheel_files: its inputs, the two directory trees, its locals, its position
    archive, entry_points, sys_version,
    wheeldir, disk,
    lib_dir, info_dir, data_dirs, installed, changed, generated, console, gui,
    dd_i, dd_entered, sub_left, filter, row_i, gen_i, inst_done, pc, error

tgVars == <<tg_pyver, tg_abi, tg_plat, tg_tags, tg_wheel, tg_supported, tg_index, tg_called>>
unVars == <<un_rows, un_i, un_pend, un_seen, un_out, un_pc>>
bdVars == <<bd_reqs, bd_i, bd_raised, bd_built, build_success, build_failure, bd_ret, bd_pc>>
mvVars == <<archive, entry_points, sys_version, wheeldir, disk, lib_dir, info_dir, data_dirs,
            installed, changed, generated, console, gui, dd_i, dd_entered, sub_left, filter,
            row_i, gen_i, inst_done, pc, error>>
vars == <<tgVars, unVars, bdVars, mvVars>>

----------------------------------------------------------------------------
(* Python string operations, on sequences of characters. *)

StartsWith(s, p) == Len(p) <= Len(s) /\ SubSeq(s, 1, Len(p)) = p

EndsWith(s, x) == Len(x) <= Len(s) /\ SubSeq(s, Len(s) - Len(x) + 1, Len(s)) = x

\* s[:-n]
DropLast(s, n) == SubSeq(s, 1, Len(s) - n)

\* s[:n]
Prefix(s, n) == SubSeq(s, 1, IF n < Len(s) THEN n ELSE Len(s))

IsDigit(c) == c \in {"0", "1", "2", "3", "4", "5", "6", "7", "8", "9"}

UpperCase == <<"A", "B", "C", "D", "E", "F", "G", "H", "I", "J", "K", "L", "M",
               "N", "O", "P", "Q", "R", "S", "T", "U", "V", "W", "X", "Y", "Z">>
LowerCase == <<"a", "b", "c", "d", "e", "f", "g", "h", "i", "j", "k", "l", "m",
               "n", "o", "p", "q", "r", "s", "t", "u", "v", "w", "x", "y", "z">>

LowerChar(c) ==
    IF \E i \in DOMAIN UpperCase : UpperCase[i] = c
    THEN LowerCase[CHOOSE i \in DOMAIN UpperCase : UpperCase[i] = c]
    ELSE c

Lower(s) == [i \in 1..Len(s) |-> LowerChar(s[i])]

\* s.replace(a, b) for one-character a and b
ReplaceChar(s, a, b) == [i \in 1..Len(s) |-> IF s[i] = a THEN b ELSE s[i]]

\* s.split(sep) for a one-character sep: the pieces between the separators, empty ones kept
RECURSIVE SplitFrom(_, _, _, _)
SplitFrom(s, sep, i, cur) ==
    IF i > Len(s) THEN <<cur>>
    ELSE IF s[i] = sep THEN <<cur>> \o SplitFrom(s, sep, i + 1, <<>>)
    ELSE SplitFrom(s, sep, i + 1, Append(cur, s[i]))

Split(s, sep) == SplitFrom(s, sep, 1, <<>>)

Range(f) == {f[i] : i \in DOMAIN f}

\* The sequences over S of length at most n
SeqsUpTo(S, n) == UNION {[1..k -> S] : k \in 0..n}

----------------------------------------------------------------------------
(* Wheel: file_tags, support_index_min, supported.                         *)

MaxTags == 3

PyTag1 == <<"p", "2">>
PyTag2 == <<"p", "3">>
AbiTag == <<"n">>
PlatTag1 == <<"x">>
PlatTag2 == <<"y">>
Dot == <<".">>

\* The values the groups pyver, abi and plat of wheel_file_re take here
PyverGroups == {PyTag1, PyTag2, PyTag1 \o Dot \o PyTag2}
AbiGroups == {AbiTag}
PlatGroups == {PlatTag1, PlatTag2, PlatTag1 \o Dot \o PlatTag2}

\* The triples a supported-tags list is made of
TagUniverse == {<<x, y, z>> : x \in {PyTag1, PyTag2}, y \in {AbiTag}, z \in {PlatTag1, PlatTag2}}

NoWheel == [pyversions |-> <<>>, abis |-> <<>>, plats |-> <<>>, file_tags |-> {}]

\* Wheel.__init__, from the groups of the filename match
WheelNew(pyver, abi, plat) ==
    LET pyversions == Split(pyver, ".")
        abis == Split(abi, ".")
        plats == Split(plat, ".")
    IN  [pyversions |-> pyversions, abis |-> abis, plats |-> plats,
         file_tags |-> {<<x, y, z>> : x \in Range(pyversions), y \in Range(abis),
                                      z \in Range(plats)}]

\* list.index(c), 0-based: the first position holding c
ListIndex(tags, c) ==
    (CHOOSE i \in 1..Len(tags) : tags[i] = c /\ \A j \in 1..(i - 1) : tags[j] # c) - 1

\* The largest element instead of the smallest
MaxOfMutant(S) == CHOOSE m \in S : \A n \in S : m >= n

\* min() of a non-empty list of numbers
MinOf(S) == CHOOSE m \in S : \A n \in S : m <= n

\* Wheel.support_index_min: <<>> is None, <<i>> the index i
SupportIndexMin(wheel, tags) ==
    LET indexes == {ListIndex(tags, c) : c \in {t \in wheel.file_tags : t \in Range(tags)}}
    IN  IF indexes # {} THEN <<MinOf(indexes)>> ELSE <<>>

\* Wheel.supported
Supported(wheel, tags) == (Range(tags) \cap wheel.file_tags) # {}

WheelInit ==
    /\ "init" \notin tg_called
    /\ tg_wheel' = WheelNew(tg_pyver, tg_abi, tg_plat)
    /\ tg_called' = tg_called \cup {"init"}
    /\ UNCHANGED <<tg_pyver, tg_abi, tg_plat, tg_tags, tg_supported, tg_index>>
    /\ UNCHANGED <<unVars, bdVars, mvVars>>

CallSupported ==
    /\ "init" \in tg_called
    /\ "supported" \notin tg_called
    /\ tg_supported' = <<Supported(tg_wheel, tg_tags)>>
    /\ tg_called' = tg_called \cup {"supported"}
    /\ UNCHANGED <<tg_pyver, tg_abi, tg_plat, tg_tags, tg_wheel, tg_index>>
    /\ UNCHANGED <<unVars, bdVars, mvVars>>

CallSupportIndexMin ==
    /\ "init" \in tg_called
    /\ "support_index_min" \notin tg_called
    /\ tg_index' = SupportIndexMin(tg_wheel, tg_tags)
    /\ tg_called' = tg_called \cup {"support_index_min"}
    /\ UNCHANGED <<tg_pyver, tg_abi, tg_plat, tg_tags, tg_wheel, tg_supported>>
    /\ UNCHANGED <<unVars, bdVars, mvVars>>

TagsNext == WheelInit \/ CallSupported \/ CallSupportIndexMin

----------------------------------------------------------------------------
(* uninstallation_paths, wrapped by _unique.                               *)

MaxRows == 3

Sep == "/"
PyExt == <<".", "p", "y">>
PycExt == <<".", "p", "y", "c">>

\* dist.location
Location == <<"/", "L">>

\* The paths a RECORD row may hold here
RowPaths ==
    { <<"m">> \o PyExt, <<"m">> \o PycExt, <<"d", "/", "m">> \o PyExt,
      <<"d", "/", "m">> \o PycExt, <<"n">> }

\* os.path.join(a, b) on POSIX
PathJoin(a, b) ==
    IF StartsWith(b, <<Sep>>) THEN b
    ELSE IF a = <<>> \/ EndsWith(a, <<Sep>>) THEN a \o b
    ELSE a \o <<Sep>> \o b

\* The index after the last separator of p (p.rfind('/') + 1)
RECURSIVE RFindSep(_, _)
RFindSep(p, i) == IF i = 0 THEN 0 ELSE IF p[i] = Sep THEN i ELSE RFindSep(p, i - 1)

RECURSIVE RStripSep(_)
RStripSep(s) == IF s # <<>> /\ s[Len(s)] = Sep THEN RStripSep(DropLast(s, 1)) ELSE s

\* os.path.split(p) on POSIX: <<head, tail>>
PathSplit(p) ==
    LET i == RFindSep(p, Len(p))
        head == SubSeq(p, 1, i)
        tail == SubSeq(p, i + 1, Len(p))
    IN  <<IF head # <<>> /\ RStripSep(head) # <<>> THEN RStripSep(head) ELSE head, tail>>

\* The .pyc path uninstallation_paths derives from a path ending in .py
PycOf(path) ==
    LET dn == PathSplit(path)[1]
        fn == PathSplit(path)[2]
        base == DropLast(fn, 3)
    IN  PathJoin(dn, base \o PycExt)

\* path.endswith('.py'): whether the generator yields a second path for the row
HasPyc(path) == EndsWith(path, PyExt)

\* A _unique that forgets what it has seen
AlwaysNewMutant(item, seen) == TRUE

\* _unique's test before it yields an item
IsNew(item, seen) == item \notin seen

\* One item leaves the inner generator and passes through _unique
UniqueYield(item) ==
    /\ un_seen' = un_seen \cup {item}
    /\ un_out' = IF IsNew(item, un_seen) THEN Append(un_out, item) ELSE un_out

\* The inner generator reads the next row and yields its path
YieldRowPath ==
    /\ un_pc = "running"
    /\ un_pend = <<>>
    /\ un_i <= Len(un_rows)
    /\ LET path == PathJoin(Location, un_rows[un_i])
       IN  /\ UniqueYield(path)
           /\ un_pend' = IF HasPyc(path) THEN <<PycOf(path)>> ELSE <<>>
    /\ un_i' = un_i + 1
    /\ UNCHANGED <<un_rows, un_pc>>
    /\ UNCHANGED <<tgVars, bdVars, mvVars>>

\* The inner generator yields the .pyc path of the row it has just read
YieldPyc ==
    /\ un_pc = "running"
    /\ un_pend # <<>>
    /\ UniqueYield(un_pend[1])
    /\ un_pend' = <<>>
    /\ UNCHANGED <<un_rows, un_i, un_pc>>
    /\ UNCHANGED <<tgVars, bdVars, mvVars>>

\* The reader is exhausted: the generator ends
UninstallStop ==
    /\ un_pc = "running"
    /\ un_pend = <<>>
    /\ un_i > Len(un_rows)
    /\ un_pc' = "done"
    /\ UNCHANGED <<un_rows, un_i, un_pend, un_seen, un_out>>
    /\ UNCHANGED <<tgVars, bdVars, mvVars>>

UninstallNext == YieldRowPath \/ YieldPyc \/ UninstallStop

----------------------------------------------------------------------------
(* WheelBuilder.build and _build_one.                                      *)

MaxReqs == 3

\* A requirement: its name and whether it is already a wheel
ReqNames == {"r1", "r2"}
Reqs == [name : ReqNames, is_wheel : BOOLEAN]

\* No entry_points.txt
NoEntryPoints == [console |-> <<>>, gui |-> <<>>]

\* What a Python function without a return statement returns
None == <<"None">>

\* _build_one: True when call_subprocess returns, False when it raises
BuildOneResult(raised) == ~raised

\* The loop body for a requirement that is already a wheel
BuildSkipWheel ==
    /\ bd_pc = "loop"
    /\ bd_i <= Len(bd_reqs)
    /\ bd_reqs[bd_i].is_wheel
    /\ bd_i' = bd_i + 1
    /\ UNCHANGED <<bd_reqs, bd_raised, bd_built, build_success, build_failure, bd_ret, bd_pc>>
    /\ UNCHANGED <<tgVars, unVars, mvVars>>

\* The loop body for a requirement to build: the subprocess runs and raises or not
BuildReq ==
    /\ bd_pc = "loop"
    /\ bd_i <= Len(bd_reqs)
    /\ ~bd_reqs[bd_i].is_wheel
    /\ \E raised \in BOOLEAN :
        /\ bd_built' = Append(bd_built, bd_i)
        /\ bd_raised' = Append(bd_raised, <<bd_i, raised>>)
        /\ IF BuildOneResult(raised)
           THEN /\ build_success' = Append(build_success, bd_i)
                /\ build_failure' = build_failure
           ELSE /\ build_failure' = Append(build_failure, bd_i)
                /\ build_success' = build_success
    /\ bd_i' = bd_i + 1
    /\ UNCHANGED <<bd_reqs, bd_ret, bd_pc>>
    /\ UNCHANGED <<tgVars, unVars, mvVars>>

\* After the loop: the notifications, and the end of the function body
BuildReturn ==
    /\ bd_pc = "loop"
    /\ bd_i > Len(bd_reqs)
    /\ bd_ret' = None
    /\ bd_pc' = "returned"
    /\ UNCHANGED <<bd_reqs, bd_i, bd_raised, bd_built, build_success, build_failure>>
    /\ UNCHANGED <<tgVars, unVars, mvVars>>

BuildNext == BuildSkipWheel \/ BuildReq \/ BuildReturn

----------------------------------------------------------------------------

----------------------------------------------------------------------------
(* move_wheel_files: the files.                                            *)
(*                                                                         *)
(* wheeldir maps the paths of the files still in the unpacked archive      *)
(* (relative to it) to their contents; disk maps the absolute paths of the *)
(* files of the target environment to theirs.  A content has lines (a      *)
(* script, a module, WHEEL) or rows (RECORD).                              *)

MaxFiles == 3
MaxEntries == 2

\* name and req.project_name
ProjectName == <<"a", "b">>

DistInfoSuffix == <<".", "d", "i", "s", "t", "-", "i", "n", "f", "o">>

DataSuffix == <<".", "d", "a", "t", "a">>

RecordName == <<"R", "E", "C", "O", "R", "D">>

TempRecordName == <<"R", "E", "C", "O", "R", "D", ".", "p", "i", "p">>

WheelFileName == <<"W", "H", "E", "E", "L">>

EntryPointsName == <<"e", "n", "t", "r", "y", "_", "p", "o", "i", "n", "t", "s", ".", "t", "x", "t">>

MetadataName == <<"M", "E", "T", "A", "D", "A", "T", "A">>

CatPurelib == <<"p", "u", "r", "e", "l", "i", "b">>

CatPlatlib == <<"p", "l", "a", "t", "l", "i", "b">>

CatScripts == <<"s", "c", "r", "i", "p", "t", "s">>

CatData == <<"d", "a", "t", "a">>

CatHeaders == <<"h", "e", "a", "d", "e", "r", "s">>

\* the metadata directory of the package
DistInfoDir == <<"a", "b", "-", "1", "0", ".", "d", "i", "s", "t", "-", "i", "n", "f", "o">>

\* a second metadata directory of the package
SecondDistInfoDir == <<"a", "b", "-", "2", "0", ".", "d", "i", "s", "t", "-", "i", "n", "f", "o">>

\* the metadata directory of another package, ab_c
OtherDistInfoDir == <<"a", "b", "_", "c", "-", "1", "0", ".", "d", "i", "s", "t", "-", "i", "n", "f", "o">>

\* the private data directory
DataDir == <<"a", "b", ".", "d", "a", "t", "a">>

PkgDir == <<"p", "k">>

ModPy == <<"m", ".", "p", "y">>

Pip == <<"p", "i", "p">>

Pip27 == <<"p", "i", "p", "2", ".", "7">>

Pip310 == <<"p", "i", "p", "3", ".", "1", "0">>

EasyInstall == <<"e", "a", "s", "y", "_", "i", "n", "s", "t", "a", "l", "l">>

EasyInstall27 == <<"e", "a", "s", "y", "_", "i", "n", "s", "t", "a", "l", "l", "-", "2", ".", "7">>

EasyInstall310 == <<"e", "a", "s", "y", "_", "i", "n", "s", "t", "a", "l", "l", "-", "3", ".", "1", "0">>

Foo == <<"f", "o", "o">>

Gapp == <<"g", "a", "p", "p">>

Run == <<"r", "u", "n">>

\* a module:callable target
Target == <<"m", ":", "f">>

\* sys.version of a Python 3.3
SysVersion33 == <<"3", ".", "3", ".", "2">>

\* sys.version of a Python 3.10
SysVersion310 == <<"3", ".", "1", "0", ".", "1">>

ShebangPrefix == <<"#", "!", "p", "y", "t", "h", "o", "n">>

ShebangPythonLine == <<"#", "!", "p", "y", "t", "h", "o", "n", "\n">>

ShebangShLine == <<"#", "!", "/", "b", "i", "n", "/", "s", "h", "\n">>

CodeLine == <<"x", "\n">>

HashBang == <<"#", "!">>

\* sys.executable
Executable == <<"/", "p", "y">>

\* os.linesep
LineSep == <<"\n">>

PurelibTrueLine == <<"R", "o", "o", "t", "-", "I", "s", "-", "P", "u", "r", "e", "l", "i", "b", ":", " ", "t", "r", "u", "e", "\n">>

PurelibFalseLine == <<"R", "o", "o", "t", "-", "I", "s", "-", "P", "u", "r", "e", "l", "i", "b", ":", " ", "f", "a", "l", "s", "e", "\n">>

PurelibTrueLower == <<"r", "o", "o", "t", "-", "i", "s", "-", "p", "u", "r", "e", "l", "i", "b", ":", " ", "t", "r", "u", "e">>

ExeSuffix == <<".", "e", "x", "e">>

ScriptPySuffix == <<"-", "s", "c", "r", "i", "p", "t", ".", "p", "y">>

PyaSuffix == <<".", "p", "y", "a">>

DotDot == <<".", ".">>

LibName == <<"l", "i", "b">>

PlatName == <<"p", "l", "a", "t">>

BinName == <<"b", "i", "n">>

DatName == <<"d", "a", "t">>

IncName == <<"i", "n", "c">>

WheelDirName == <<"w">>

Sha256Tag == <<"s", "h", "a", "2", "5", "6", "=">>

\* The first component of an absolute path
Root == <<"/">>

\* The unpacked archive
WheelDir == <<Root, WheelDirName>>

\* distutils_scheme(name): the target directory of each category
Scheme ==
    (CatPurelib :> <<Root, LibName>>) @@ (CatPlatlib :> <<Root, PlatName>>)
    @@ (CatScripts :> <<Root, BinName>>) @@ (CatData :> <<Root, DatName>>)
    @@ (CatHeaders :> <<Root, IncName>>)

Text(lines) == [lines |-> lines, rows |-> <<>>]

Csv(rows) == [lines |-> <<>>, rows |-> rows]

\* f with key k set to v
Put(f, k, v) == [x \in DOMAIN f \cup {k} |-> IF x = k THEN v ELSE f[x]]

\* f without the keys of K
Without(f, K) == [x \in DOMAIN f \ K |-> f[x]]

\* The orders a set can be listed in
Orders(S) == {f \in [1..Cardinality(S) -> S] : Range(f) = S}

\* The bytes of a file
RECURSIVE Bytes(_)
Bytes(lines) == IF lines = <<>> THEN <<>> ELSE Head(lines) \o Bytes(Tail(lines))

\* rehash(path): the digest is a tagged injective image of the bytes
Rehash(content) ==
    [hash |-> Sha256Tag \o Bytes(content.lines), len |-> <<Len(Bytes(content.lines))>>]

\* fix_script on a regular file: whether it changed, and the file afterwards
FixScript(content) ==
    LET firstline == IF content.lines = <<>> THEN <<>> ELSE content.lines[1]
    IN  IF ~StartsWith(firstline, ShebangPrefix)
        THEN [changed |-> FALSE, content |-> content]
        ELSE [changed |-> TRUE,
              content |-> Text(<<HashBang \o Executable \o LineSep>> \o Tail(content.lines))]

\* line.rstrip()
RECURSIVE RStrip(_)
RStrip(s) ==
    IF s # <<>> /\ s[Len(s)] \in {" ", "\n", "\t", "\r"} THEN RStrip(DropLast(s, 1)) ELSE s

\* os.listdir(d) in the tree w: the names of the entries of directory d
ListDir(w, d) ==
    {p[Len(d) + 1] : p \in {q \in DOMAIN w : Len(q) > Len(d) /\ SubSeq(q, 1, Len(d)) = d}}

\* The subdirectories of directory d in the tree w
SubDirs(w, d) ==
    {p[Len(d) + 1] : p \in {q \in DOMAIN w : Len(q) > Len(d) + 1 /\ SubSeq(q, 1, Len(d)) = d}}

\* The directories of the tree w, the top one (the empty path) included
AllDirs(w) == UNION {{SubSeq(p, 1, k) : k \in 0..(Len(p) - 1)} : p \in DOMAIN w}

\* dist_info_re matches item
DistInfoMatches(item) == EndsWith(item, DistInfoSuffix) /\ Len(item) > Len(DistInfoSuffix)

\* The group 'name' of dist_info_re: the shortest prefix followed by -<digit><more>, or
\* else all that stands before .dist-info
DistInfoName(item) ==
    LET namever == DropLast(item, Len(DistInfoSuffix))
        cuts == {i \in 1..Len(namever) :
                    \/ i = Len(namever)
                    \/ /\ Len(namever) >= i + 3
                       /\ namever[i + 1] = "-"
                       /\ IsDigit(namever[i + 2])}
    IN  SubSeq(namever, 1, CHOOSE i \in cuts : \A j \in cuts : i <= j)

root_is_purelib(name, w) ==
    LET name_folded == ReplaceChar(name, "-", "_")
    IN  \E item \in ListDir(w, <<>>) :
            /\ DistInfoMatches(item)
            /\ DistInfoName(item) = name_folded
            /\ <<item, WheelFileName>> \in DOMAIN w
            /\ \E i \in DOMAIN w[<<item, WheelFileName>>].lines :
                   RStrip(Lower(w[<<item, WheelFileName>>].lines[i])) = PurelibTrueLower

\* The common leading part of two sequences has this length
RECURSIVE CommonLen(_, _)
CommonLen(a, b) ==
    IF a # <<>> /\ b # <<>> /\ Head(a) = Head(b) THEN 1 + CommonLen(Tail(a), Tail(b)) ELSE 0

\* pip.util.make_path_relative(path, rel_to), for absolute paths: '..' for every
\* directory of rel_to below the common part, then the rest of path
make_path_relative(path, rel_to) ==
    LET path_parts == SubSeq(path, 2, Len(path) - 1)
        rel_to_parts == Tail(rel_to)
        n == CommonLen(path_parts, rel_to_parts)
    IN  [i \in 1..(Len(rel_to_parts) - n) |-> DotDot]
            \o SubSeq(path_parts, n + 1, Len(path_parts)) \o <<path[Len(path)]>>

\* normpath(src, p); the separators of a path are those between its components
normpath(src, p) == make_path_relative(src, p)

\* clobber, is_base: the directories the walk does not skip (line 160)
WalkedBase(d) == d = <<>> \/ ~EndsWith(d[1], DataSuffix)

\* clobber, is_base: the subdirectories appended to data_dirs (lines 164 to 166)
BaseDataDirs(w) == {s \in SubDirs(w, <<>>) : EndsWith(s, DataSuffix)}

\* clobber, is_base: whether subdirectory s is taken for the .dist-info directory of
\* the project (lines 167 to 170)
IsInfoDirEntry(s, project) ==
    /\ EndsWith(s, DistInfoSuffix)
    /\ StartsWith(Lower(s), Lower(ReplaceChar(project, "-", "_")))

\* clobber, is_base: the directories appended to info_dir, relative to the archive
BaseInfoDirs(w, project) ==
    {x \in AllDirs(w) :
        /\ x # <<>>
        /\ WalkedBase(DropLast(x, 1))
        /\ ~(Len(x) = 1 /\ EndsWith(x[1], DataSuffix))
        /\ IsInfoDirEntry(x[Len(x)], project)}

\* clobber, is_base: the files the walk moves
BaseFiles(w) == {p \in DOMAIN w : WalkedBase(DropLast(p, 1))}

\* get_entrypoints: the console and gui sections of entry_points.txt, if it is there
get_entrypoints(filename, files, declared) ==
    IF filename \notin DOMAIN files THEN NoEntryPoints
    ELSE [console |-> [k \in {Lower(n) : n \in DOMAIN declared.console} |-> Target],
          gui |-> [k \in {Lower(n) : n \in DOMAIN declared.gui} |-> Target]]

is_entrypoint_wrapper(name, cons, gu) ==
    LET matchname ==
            IF EndsWith(Lower(name), ExeSuffix) THEN DropLast(name, 4)
            ELSE IF EndsWith(Lower(name), ScriptPySuffix) THEN DropLast(name, 10)
            ELSE IF EndsWith(Lower(name), PyaSuffix) THEN DropLast(name, 4)
            ELSE name
    IN  matchname \in DOMAIN cons \/ matchname \in DOMAIN gu

\* The filter the loop over the subdirectories of a data directory hands to clobber,
\* given the one in force before (lines 211 to 216): TRUE is is_entrypoint_wrapper
FilterFor(before, subdir) == IF subdir = CatScripts THEN TRUE ELSE before

\* The fixer handed to clobber (lines 213 to 215): TRUE is fix_script
FixerFor(subdir) == subdir = CatScripts

\* re.match(r'pip(\d(\.\d)?)?$', k)
PipRe(k) ==
    /\ StartsWith(k, Pip)
    /\ LET rest == SubSeq(k, Len(Pip) + 1, Len(k))
       IN  \/ rest = <<>>
           \/ Len(rest) = 1 /\ IsDigit(rest[1])
           \/ Len(rest) = 3 /\ IsDigit(rest[1]) /\ rest[2] = "." /\ IsDigit(rest[3])

\* re.match(r'easy_install(-\d\.\d)?$', k)
EasyInstallRe(k) ==
    /\ StartsWith(k, EasyInstall)
    /\ LET rest == SubSeq(k, Len(EasyInstall) + 1, Len(k))
       IN  \/ rest = <<>>
           \/ /\ Len(rest) = 4
              /\ rest[1] = "-" /\ IsDigit(rest[2]) /\ rest[3] = "." /\ IsDigit(rest[4])

\* ScriptMaker.make('name = target'): the path of the launcher written and its content
MakerMake(name, target) ==
    [path |-> Scheme[CatScripts] \o <<name>>,
     content |-> Text(<<HashBang \o Executable \o LineSep, target>>)]

\* The launcher names made for pip, in order (lines 248 to 255)
PipLaunchers(cons, version) ==
    IF Pip \in DOMAIN cons /\ cons[Pip] # <<>>
    THEN <<Pip, Pip \o Prefix(version, 1), Pip \o Prefix(version, 3)>>
    ELSE <<>>

\* console after the pip block (lines 248 to 259)
AfterPip(cons) ==
    LET popped == Without(cons, {Pip})
    IN  IF Pip \in DOMAIN cons /\ cons[Pip] # <<>>
        THEN Without(popped, {k \in DOMAIN popped : PipRe(k)})
        ELSE popped

\* The launcher names made for easy_install, in order (lines 260 to 265)
EasyInstallLaunchers(cons, version) ==
    IF EasyInstall \in DOMAIN cons /\ cons[EasyInstall] # <<>>
    THEN <<EasyInstall, EasyInstall \o <<"-">> \o Prefix(version, 3)>>
    ELSE <<>>

\* console after the easy_install block (lines 260 to 270)
AfterEasyInstall(cons) ==
    LET popped == Without(cons, {EasyInstall})
    IN  IF EasyInstall \in DOMAIN cons /\ cons[EasyInstall] # <<>>
        THEN Without(popped, {k \in DOMAIN popped : EasyInstallRe(k)})
        ELSE popped

\* The files after the launchers of names are written one after the other
RECURSIVE WriteLaunchers(_, _)
WriteLaunchers(files, names) ==
    IF names = <<>> THEN files
    ELSE WriteLaunchers(Put(files, MakerMake(Head(names), Target).path,
                            MakerMake(Head(names), Target).content), Tail(names))

\* Rows written straight into RECORD instead of the sibling file
InPlaceMutant(info) == info \o <<RecordName>>

\* temp_record (line 279)
RecordOut(info) == info \o <<TempRecordName>>

\* record (line 278)
RecordIn(info) == info \o <<RecordName>>

----------------------------------------------------------------------------
(* move_wheel_files: the steps.                                            *)

\* Lines 124 to 187: the scheme, lib_dir, and clobber(source, lib_dir, True).  The
\* subdirectories of the top directory are looked at before any file is moved, and
\* the archives here hold .dist-info directories at the top only: a second match
\* ends the walk by the assertion of line 171 with nothing moved.
ClobberBase ==
    /\ pc = "start"
    /\ LET lib == IF root_is_purelib(ProjectName, wheeldir)
                  THEN Scheme[CatPurelib] ELSE Scheme[CatPlatlib]
           infos == BaseInfoDirs(wheeldir, ProjectName)
           moved == BaseFiles(wheeldir)
       IN  /\ lib_dir' = lib
           /\ IF Cardinality(infos) > 1
              THEN /\ pc' = "aborted"
                   /\ error' = "Multiple .dist-info directories"
                   /\ UNCHANGED <<wheeldir, disk, info_dir, data_dirs, installed>>
              ELSE /\ pc' = "base_done"
                   /\ error' = error
                   /\ info_dir' = IF infos = {} THEN <<>>
                                  ELSE <<lib \o (CHOOSE x \in infos : TRUE)>>
                   /\ data_dirs' \in Orders(BaseDataDirs(wheeldir))
                   /\ wheeldir' = Without(wheeldir, moved)
                   /\ disk' = [q \in DOMAIN disk \cup {lib \o p : p \in moved} |->
                                 IF \E p \in moved : lib \o p = q
                                 THEN wheeldir[CHOOSE p \in moved : lib \o p = q]
                                 ELSE disk[q]]
                   /\ installed' =
                        [o \in DOMAIN installed
                               \cup {normpath(WheelDir \o p, WheelDir) : p \in moved} |->
                            IF \E p \in moved : normpath(WheelDir \o p, WheelDir) = o
                            THEN normpath(lib \o (CHOOSE p \in moved :
                                     normpath(WheelDir \o p, WheelDir) = o), lib)
                            ELSE installed[o]]
    /\ UNCHANGED <<archive, entry_points, sys_version, changed, generated, console, gui,
                   dd_i, dd_entered, sub_left, filter, row_i, gen_i, inst_done>>
    /\ UNCHANGED <<tgVars, unVars, bdVars>>

\* Lines 189 to 193: the assertion that a .dist-info directory was found, and the
\* entry points read from it
ReadEntryPoints ==
    /\ pc = "base_done"
    /\ IF info_dir = <<>>
       THEN /\ pc' = "aborted"
            /\ error' = ".dist-info directory not found"
            /\ UNCHANGED <<console, gui>>
       ELSE /\ pc' = "data"
            /\ error' = error
            /\ LET eps == get_entrypoints(info_dir[1] \o <<EntryPointsName>>, disk,
                                          entry_points)
               IN  console' = eps.console /\ gui' = eps.gui
    /\ UNCHANGED <<archive, entry_points, sys_version, wheeldir, disk, lib_dir, info_dir,
                   data_dirs, installed, changed, generated, dd_i, dd_entered, sub_left,
                   filter, row_i, gen_i, inst_done>>
    /\ UNCHANGED <<tgVars, unVars, bdVars>>

\* Lines 209 to 212: the loop reaches a data directory, clears fixer and filter and
\* lists its subdirectories
NextDataDir ==
    /\ pc = "data"
    /\ ~dd_entered
    /\ dd_i <= Len(data_dirs)
    /\ dd_entered' = TRUE
    /\ filter' = FALSE
    /\ sub_left' = ListDir(wheeldir, <<data_dirs[dd_i]>>)
    /\ UNCHANGED <<archive, entry_points, sys_version, wheeldir, disk, lib_dir, info_dir,
                   data_dirs, installed, changed, generated, console, gui, dd_i, row_i,
                   gen_i, inst_done, pc, error>>
    /\ UNCHANGED <<tgVars, unVars, bdVars>>

\* Lines 212 to 219: one subdirectory of the data directory, in the order os.listdir
\* gave, goes through clobber(source, scheme[subdir], False, fixer, filter)
ClobberDataSubdir ==
    /\ pc = "data"
    /\ dd_entered
    /\ \E subdir \in sub_left :
        LET datadir == data_dirs[dd_i]
            fixer == FixerFor(subdir)
            filt == FilterFor(filter, subdir)
            dest == Scheme[subdir]
            under == {p \in DOMAIN wheeldir :
                         Len(p) > 2 /\ p[1] = datadir /\ p[2] = subdir}
            moved == {p \in under :
                         ~(filt /\ is_entrypoint_wrapper(p[Len(p)], console, gui))}
            Dest(p) == dest \o SubSeq(p, 3, Len(p))
            Fixed(p) == IF fixer THEN FixScript(wheeldir[p])
                        ELSE [changed |-> FALSE, content |-> wheeldir[p]]
        IN  /\ filter' = filt
            /\ sub_left' = sub_left \ {subdir}
            /\ dd_entered' = (sub_left' # {})
            /\ dd_i' = IF sub_left' = {} THEN dd_i + 1 ELSE dd_i
            /\ wheeldir' = Without(wheeldir, moved)
            /\ disk' = [q \in DOMAIN disk \cup {Dest(p) : p \in moved} |->
                          IF \E p \in moved : Dest(p) = q
                          THEN Fixed(CHOOSE p \in moved : Dest(p) = q).content
                          ELSE disk[q]]
            /\ installed' =
                 [o \in DOMAIN installed
                        \cup {normpath(WheelDir \o p, WheelDir) : p \in moved} |->
                     IF \E p \in moved : normpath(WheelDir \o p, WheelDir) = o
                     THEN normpath(Dest(CHOOSE p \in moved :
                              normpath(WheelDir \o p, WheelDir) = o), lib_dir)
                     ELSE installed[o]]
            /\ changed' = changed \cup {Dest(p) : p \in {x \in moved : Fixed(x).changed}}
    /\ UNCHANGED <<archive, entry_points, sys_version, lib_dir, info_dir, data_dirs,
                   generated, console, gui, row_i, gen_i, inst_done, pc, error>>
    /\ UNCHANGED <<tgVars, unVars, bdVars>>

\* Lines 221 to 276: the launchers of pip, of easy_install and of the entry points
\* left in console and gui, the latter in the order of the dictionaries
GenerateScripts ==
    /\ pc = "data"
    /\ ~dd_entered
    /\ dd_i > Len(data_dirs)
    /\ LET left == AfterEasyInstall(AfterPip(console))
       IN  \E co \in Orders(DOMAIN left), go \in Orders(DOMAIN gui) :
              LET names == PipLaunchers(console, sys_version)
                             \o EasyInstallLaunchers(AfterPip(console), sys_version)
                             \o co \o go
              IN  /\ generated' = [i \in DOMAIN names |-> MakerMake(names[i], Target).path]
                  /\ disk' = WriteLaunchers(disk, names)
                  /\ console' = left
    /\ pc' = "record"
    /\ UNCHANGED <<archive, entry_points, sys_version, wheeldir, lib_dir, info_dir,
                   data_dirs, installed, changed, gui, dd_i, dd_entered, sub_left, filter,
                   row_i, gen_i, inst_done, error>>
    /\ UNCHANGED <<tgVars, unVars, bdVars>>

\* Lines 278 to 283: RECORD is opened for reading, which fails when the metadata
\* directory holds none, and then the output file for writing
OpenRecords ==
    /\ pc = "record"
    /\ IF RecordIn(info_dir[1]) \in DOMAIN disk
       THEN /\ disk' = Put(disk, RecordOut(info_dir[1]), Csv(<<>>))
            /\ pc' = "rows"
            /\ error' = error
       ELSE /\ disk' = disk
            /\ pc' = "crashed"
            /\ error' = "RECORD cannot be opened"
    /\ row_i' = 1
    /\ gen_i' = 1
    /\ inst_done' = {}
    /\ UNCHANGED <<archive, entry_points, sys_version, wheeldir, lib_dir, info_dir,
                   data_dirs, installed, changed, generated, console, gui, dd_i,
                   dd_entered, sub_left, filter>>
    /\ UNCHANGED <<tgVars, unVars, bdVars>>

\* Lines 284 to 288: one row of RECORD is rewritten and written out
RewriteRow ==
    /\ pc = "rows"
    /\ row_i <= Len(disk[RecordIn(info_dir[1])].rows)
    /\ LET row == disk[RecordIn(info_dir[1])].rows[row_i]
           path == IF row.path \in DOMAIN installed THEN installed[row.path] ELSE row.path
           out == IF path \in changed
                  THEN [path |-> path, hash |-> Rehash(disk[path]).hash,
                        len |-> Rehash(disk[path]).len]
                  ELSE [row EXCEPT !.path = path]
       IN  /\ installed' = Without(installed, {row.path})
           /\ disk' = [disk EXCEPT ![RecordOut(info_dir[1])].rows = Append(@, out)]
    /\ row_i' = row_i + 1
    /\ UNCHANGED <<archive, entry_points, sys_version, wheeldir, lib_dir, info_dir,
                   data_dirs, changed, generated, console, gui, dd_i, dd_entered, sub_left,
                   filter, gen_i, inst_done, pc, error>>
    /\ UNCHANGED <<tgVars, unVars, bdVars>>

\* Lines 289 to 291: the row of one generated file
WriteGeneratedRow ==
    /\ pc = "rows"
    /\ row_i > Len(disk[RecordIn(info_dir[1])].rows)
    /\ gen_i <= Len(generated)
    /\ LET f == generated[gen_i]
       IN  disk' = [disk EXCEPT ![RecordOut(info_dir[1])].rows =
                       Append(@, [path |-> f, hash |-> Rehash(disk[f]).hash,
                                  len |-> Rehash(disk[f]).len])]
    /\ gen_i' = gen_i + 1
    /\ UNCHANGED <<archive, entry_points, sys_version, wheeldir, lib_dir, info_dir,
                   data_dirs, installed, changed, generated, console, gui, dd_i,
                   dd_entered, sub_left, filter, row_i, inst_done, pc, error>>
    /\ UNCHANGED <<tgVars, unVars, bdVars>>

\* Lines 292 to 293: the row of one installed file RECORD did not list
WriteInstalledRow ==
    /\ pc = "rows"
    /\ row_i > Len(disk[RecordIn(info_dir[1])].rows)
    /\ gen_i > Len(generated)
    /\ \E f \in DOMAIN installed \ inst_done :
        /\ disk' = [disk EXCEPT ![RecordOut(info_dir[1])].rows =
                       Append(@, [path |-> installed[f], hash |-> <<>>, len |-> <<>>])]
        /\ inst_done' = inst_done \cup {f}
    /\ UNCHANGED <<archive, entry_points, sys_version, wheeldir, lib_dir, info_dir,
                   data_dirs, installed, changed, generated, console, gui, dd_i,
                   dd_entered, sub_left, filter, row_i, gen_i, pc, error>>
    /\ UNCHANGED <<tgVars, unVars, bdVars>>

\* Line 294: shutil.move(temp_record, record), a rename within one directory
ReplaceRecord ==
    /\ pc = "rows"
    /\ row_i > Len(disk[RecordIn(info_dir[1])].rows)
    /\ gen_i > Len(generated)
    /\ DOMAIN installed \subseteq inst_done
    /\ disk' = Without(Put(disk, RecordIn(info_dir[1]), disk[RecordOut(info_dir[1])]),
                       {RecordOut(info_dir[1])} \ {RecordIn(info_dir[1])})
    /\ pc' = "done"
    /\ UNCHANGED <<archive, entry_points, sys_version, wheeldir, lib_dir, info_dir,
                   data_dirs, installed, changed, generated, console, gui, dd_i,
                   dd_entered, sub_left, filter, row_i, gen_i, inst_done, error>>
    /\ UNCHANGED <<tgVars, unVars, bdVars>>

\* The operation stops during the manifest rewrite: an I/O error, a hashing error,
\* or the process is killed
Crash ==
    /\ pc \in {"record", "rows"}
    /\ pc' = "crashed"
    /\ error' = "stopped during the manifest rewrite"
    /\ UNCHANGED <<archive, entry_points, sys_version, wheeldir, disk, lib_dir, info_dir,
                   data_dirs, installed, changed, generated, console, gui, dd_i,
                   dd_entered, sub_left, filter, row_i, gen_i, inst_done>>
    /\ UNCHANGED <<tgVars, unVars, bdVars>>

InstallNext ==
    \/ ClobberBase
    \/ ReadEntryPoints
    \/ NextDataDir
    \/ ClobberDataSubdir
    \/ GenerateScripts
    \/ OpenRecords
    \/ RewriteRow
    \/ WriteGeneratedRow
    \/ WriteInstalledRow
    \/ ReplaceRecord
    \/ Crash

----------------------------------------------------------------------------
(* move_wheel_files: the unpacked archives and entry points it is run on.  *)

RecordPath == <<DistInfoDir, RecordName>>
WheelPath == <<DistInfoDir, WheelFileName>>
EntryPointsPath == <<DistInfoDir, EntryPointsName>>
ModulePath == <<PkgDir, ModPy>>
PurelibModulePath == <<DataDir, CatPurelib, PkgDir, ModPy>>
RunScriptPath == <<DataDir, CatScripts, Run>>
FooScriptPath == <<DataDir, CatScripts, Foo>>
FooDataPath == <<DataDir, CatData, Foo>>
OtherMetadataPath == <<OtherDistInfoDir, MetadataName>>
SecondWheelPath == <<SecondDistInfoDir, WheelFileName>>

\* The files of the metadata directory of the package
DistInfoFiles == {RecordPath, WheelPath}

\* The files an archive may hold besides
OptionalFiles ==
    {ModulePath, PurelibModulePath, RunScriptPath, FooScriptPath, FooDataPath,
     OtherMetadataPath, SecondWheelPath}

\* The order RECORD lists the files in
FileOrder ==
    <<ModulePath, PurelibModulePath, RunScriptPath, FooScriptPath, FooDataPath,
      OtherMetadataPath, SecondWheelPath, WheelPath, EntryPointsPath, RecordPath>>

\* What a file of the archive holds, RECORD apart
FileContent(p, pure) ==
    CASE p \in {WheelPath, SecondWheelPath} ->
            Text(<<IF pure THEN PurelibTrueLine ELSE PurelibFalseLine>>)
      [] p = RunScriptPath -> Text(<<ShebangPythonLine, CodeLine>>)
      [] p = FooScriptPath -> Text(<<ShebangShLine, CodeLine>>)
      [] p = PurelibModulePath -> Text(<<CodeLine, CodeLine>>)
      [] OTHER -> Text(<<CodeLine>>)

\* The rows of the RECORD of an archive: every listed file with the hash and length
\* of its content, RECORD itself with neither
RECURSIVE RecordRows(_, _, _)
RecordRows(order, listed, pure) ==
    IF order = <<>> THEN <<>>
    ELSE LET p == Head(order)
             row == IF p = RecordPath THEN [path |-> p, hash |-> <<>>, len |-> <<>>]
                    ELSE [path |-> p, hash |-> Rehash(FileContent(p, pure)).hash,
                          len |-> Rehash(FileContent(p, pure)).len]
         IN  (IF p \in listed THEN <<row>> ELSE <<>>) \o RecordRows(Tail(order), listed, pure)

\* The unpacked archive holding files, whose RECORD does not list unlisted
Archive(files, unlisted, pure) ==
    [p \in files |-> IF p = RecordPath
                     THEN Csv(RecordRows(FileOrder, files \ unlisted, pure))
                     ELSE FileContent(p, pure)]

ConsoleNames == {Pip, Pip27, Pip310, EasyInstall, EasyInstall27, EasyInstall310, Foo}
GuiNames == {Gapp}

Declared(names) == [k \in names |-> Target]

----------------------------------------------------------------------------
(* Properties of Wheel.supported and Wheel.support_index_min.              *)

\* The Cartesian product of the wheel's python, abi and platform tag alternatives
TagProduct ==
    {<<x, y, z>> : x \in Range(tg_wheel.pyversions), y \in Range(tg_wheel.abis),
                   z \in Range(tg_wheel.plats)}

\* The positions (0-based) of the supported list that hold a tag of the wheel
MatchingIndexes == {i - 1 : i \in {j \in DOMAIN tg_tags : tg_tags[j] \in TagProduct}}

\* C9: supported(tags) is true iff file_tags (the product of the tag alternatives)
\* intersects the list; support_index_min(tags) is the smallest index of the list
\* holding a triple of file_tags, and None exactly when supported(tags) is false.
C9_SupportMatchesTags ==
    /\ "init" \in tg_called => tg_wheel.file_tags = TagProduct
    /\ "supported" \in tg_called => (tg_supported[1] <=> MatchingIndexes # {})
    /\ "support_index_min" \in tg_called =>
          IF MatchingIndexes = {} THEN tg_index = <<>>
          ELSE /\ Len(tg_index) = 1
               /\ tg_index[1] \in MatchingIndexes
               /\ \A k \in MatchingIndexes : tg_index[1] <= k
    /\ {"supported", "support_index_min"} \subseteq tg_called =>
          (tg_index = <<>> <=> ~tg_supported[1])

\* A wheel with several tags, the first supported tag not one of them, two later ones are
C9_Witness ==
    /\ {"supported", "support_index_min"} \subseteq tg_called
    /\ Cardinality(tg_wheel.file_tags) > 1
    /\ Len(tg_tags) = 3
    /\ tg_tags[1] \notin tg_wheel.file_tags
    /\ tg_tags[2] \in tg_wheel.file_tags
    /\ tg_tags[3] \in tg_wheel.file_tags
    /\ tg_index = <<1>>
    /\ tg_supported = <<TRUE>>

----------------------------------------------------------------------------
(* Properties of uninstallation_paths.                                     *)

\* What one row stands for: its path under the location, then the .pyc beside a .py
RowItems(row) ==
    LET path == Location \o <<Sep>> \o row
    IN  IF EndsWith(row, PyExt) THEN <<path, DropLast(path, 3) \o PycExt>> ELSE <<path>>

RECURSIVE AllItems(_)
AllItems(rows) == IF rows = <<>> THEN <<>> ELSE RowItems(Head(rows)) \o AllItems(Tail(rows))

\* The items of a sequence in the order of their first occurrence
RECURSIVE FirstOccurrences(_, _)
FirstOccurrences(items, had) ==
    IF items = <<>> THEN <<>>
    ELSE IF Head(items) \in had THEN FirstOccurrences(Tail(items), had)
    ELSE <<Head(items)>> \o FirstOccurrences(Tail(items), had \cup {Head(items)})

\* C8: uninstallation_paths yields each manifest path joined to the location and, for
\* a path ending in .py, the .pyc path beside it; no path more than once; in the
\* order of first occurrence of 'row path, then its .pyc' taken row by row.
C8_UninstallPaths ==
    /\ un_pc = "done" => un_out = FirstOccurrences(AllItems(un_rows), {})
    /\ \A i, j \in DOMAIN un_out : un_out[i] = un_out[j] => i = j

\* m.py is listed twice and m.pyc once: three rows, two paths
C8_Witness ==
    /\ un_pc = "done"
    /\ Len(un_rows) = 3
    /\ Cardinality({i \in DOMAIN un_rows : un_rows[i] = <<"m">> \o PyExt}) = 2
    /\ \E i \in DOMAIN un_rows : un_rows[i] = <<"m">> \o PycExt
    /\ un_out = <<Location \o <<Sep, "m">> \o PyExt, Location \o <<Sep, "m">> \o PycExt>>

----------------------------------------------------------------------------
(* Properties of WheelBuilder.build.                                       *)

NotWheels == {i \in DOMAIN bd_reqs : ~bd_reqs[i].is_wheel}

Occurrences(seq, x) == Cardinality({k \in DOMAIN seq : seq[k] = x})

\* Every requirement to build was built once and is in one list, by its outcome; a
\* wheel is in neither
BuildPartition ==
    /\ \A i \in NotWheels :
          /\ Occurrences(bd_built, i) = 1
          /\ Occurrences(build_success, i) + Occurrences(build_failure, i) = 1
          /\ Occurrences(build_success, i) = 1 <=> <<i, FALSE>> \in Range(bd_raised)
    /\ \A i \in DOMAIN bd_reqs \ NotWheels :
          Occurrences(bd_built, i) + Occurrences(build_success, i)
              + Occurrences(build_failure, i) = 0

\* The part of C3 the loop of build satisfies
BuildPartitionHolds == bd_pc = "returned" => BuildPartition

\* C3: build builds every requirement that is not a wheel exactly once, puts it in
\* exactly one of the success and failure lists (success iff the subprocess did not
\* raise), goes on after a failure, leaves wheels out of both lists, and returns the
\* pair (succeeded, failed) to its caller.
C3_BuildReturnsPair ==
    bd_pc = "returned" => BuildPartition /\ bd_ret = <<build_success, build_failure>>

----------------------------------------------------------------------------
(* Properties of move_wheel_files.                                         *)

\* A path with its '..' components resolved, starting from the directory done
RECURSIVE NormParts(_, _)
NormParts(done, todo) ==
    IF todo = <<>> THEN done
    ELSE IF Head(todo) = DotDot
         THEN NormParts(IF Len(done) > 1 THEN DropLast(done, 1) ELSE done, Tail(todo))
         ELSE NormParts(Append(done, Head(todo)), Tail(todo))

\* The file a RECORD path names, resolved relative to base
Resolve(base, path) ==
    IF path # <<>> /\ path[1] = Root THEN path ELSE NormParts(base, path)

\* The rows of the installed RECORD
InstalledRows == disk[RecordIn(info_dir[1])].rows

\* The rows of the RECORD the archive came with, for the metadata directory found
ArchiveRecordPath ==
    SubSeq(info_dir[1], Len(lib_dir) + 1, Len(info_dir[1])) \o <<RecordName>>

ArchiveRows == archive[ArchiveRecordPath].rows

AfterScripts == pc \in {"record", "rows", "crashed", "done"}

\* C1: after move_wheel_files has completed, every row of the rewritten RECORD names,
\* relative to lib_dir, a file that exists, and every file under lib_dir has exactly
\* one RECORD row.
C1_RecordMatchesDisk ==
    pc = "done" =>
        /\ \A i \in DOMAIN InstalledRows :
               Resolve(lib_dir, InstalledRows[i].path) \in DOMAIN disk
        /\ \A f \in DOMAIN disk :
               StartsWith(f, lib_dir) =>
                   Cardinality({i \in DOMAIN InstalledRows :
                                   Resolve(lib_dir, InstalledRows[i].path) = f}) = 1

\* C2: the RECORD row of a file that fix_script rewrote carries the hash and length
\* rehash gives for the file as it is after the rewrite.
C2_ChangedRowsRehashed ==
    pc = "done" =>
        \A f \in changed : \A i \in DOMAIN InstalledRows :
            Resolve(lib_dir, InstalledRows[i].path) = f =>
                /\ InstalledRows[i].hash = Rehash(disk[f]).hash
                /\ InstalledRows[i].len = Rehash(disk[f]).len

\* The row new stands for the row orig of the archive: the same path, or the place
\* under lib_dir or a scheme directory the file of orig was moved to
TranslatedRow(orig, new) ==
    \/ new.path = orig.path
    \/ Resolve(lib_dir, new.path) = lib_dir \o orig.path
    \/ \E c \in DOMAIN Scheme :
           /\ Len(orig.path) > 2
           /\ orig.path[2] = c
           /\ Resolve(lib_dir, new.path) = Scheme[c] \o SubSeq(orig.path, 3, Len(orig.path))

\* The rewritten RECORD is complete: a row for every row of the original, in order,
\* then one for every generated file, then one for every installed file left over
CompleteRecord(rows) ==
    /\ Len(rows) = Len(ArchiveRows) + Len(generated) + Cardinality(DOMAIN installed)
    /\ \A i \in DOMAIN ArchiveRows : TranslatedRow(ArchiveRows[i], rows[i])
    /\ \A k \in DOMAIN generated : rows[Len(ArchiveRows) + k].path = generated[k]
    /\ {rows[i].path : i \in (Len(ArchiveRows) + Len(generated) + 1)..Len(rows)}
           = Range(installed)

\* C4: while and after the manifest is rewritten, wherever the operation stops, RECORD
\* holds the complete original manifest or the complete rewritten one: the rows go to
\* RECORD.pip, and RECORD changes in the one replace step after every row is written.
C4_RecordReplacedAtomically ==
    (AfterScripts /\ ArchiveRecordPath \in DOMAIN archive) =>
        /\ RecordIn(info_dir[1]) \in DOMAIN disk
        /\ IF pc = "done"
           THEN /\ CompleteRecord(InstalledRows)
                /\ (info_dir[1] \o <<TempRecordName>>) \notin DOMAIN disk
           ELSE InstalledRows = ArchiveRows
        /\ pc = "rows" =>
              Len(disk[info_dir[1] \o <<TempRecordName>>].rows)
                  = (row_i - 1) + (gen_i - 1) + Cardinality(inst_done)

\* The operation stopped with some rows written, some not, and RECORD as it was
C4_Witness ==
    /\ pc = "crashed"
    /\ (info_dir[1] \o <<TempRecordName>>) \in DOMAIN disk
    /\ Len(disk[info_dir[1] \o <<TempRecordName>>].rows) >= 2
    /\ row_i <= Len(ArchiveRows)
    /\ generated # <<>>
    /\ \E o \in DOMAIN installed : installed[o] # o
    /\ InstalledRows = ArchiveRows

\* The names of the launchers generated, in order
LauncherNames == [i \in DOMAIN generated |-> generated[i][Len(generated[i])]]

Launchers(n) == Cardinality({i \in DOMAIN LauncherNames : LauncherNames[i] = n})

\* The major and the major.minor version of the installing interpreter
Major == Split(sys_version, ".")[1]
MajorMinor == Split(sys_version, ".")[1] \o Dot \o Split(sys_version, ".")[2]

\* n is base, then sep, then a version: digits and dots, a digit first
VersionQualified(n, base, sep) ==
    /\ StartsWith(n, base \o sep)
    /\ Len(n) > Len(base \o sep)
    /\ IsDigit(n[Len(base \o sep) + 1])
    /\ \A i \in (Len(base \o sep) + 1)..Len(n) : IsDigit(n[i]) \/ n[i] = "."

Reserved(n) ==
    \/ n \in {Pip, EasyInstall}
    \/ VersionQualified(n, Pip, <<>>)
    \/ VersionQualified(n, EasyInstall, <<"-">>)

\* C5: when pip is declared, exactly the launchers pip, pip{major} and
\* pip{major.minor} of the installing interpreter are generated for it and no other
\* version-qualified pip launcher; when easy_install is declared, the bare launcher
\* and easy_install-{major.minor} and no other version-qualified one; every
\* non-reserved name gets exactly one launcher.
C5_LaunchersForEntryPoints ==
    AfterScripts =>
        /\ Pip \in DOMAIN entry_points.console =>
              /\ Launchers(Pip) = 1
              /\ Launchers(Pip \o Major) = 1
              /\ Launchers(Pip \o MajorMinor) = 1
              /\ \A n \in Range(LauncherNames) :
                     VersionQualified(n, Pip, <<>>) => n \in {Pip \o Major, Pip \o MajorMinor}
        /\ EasyInstall \in DOMAIN entry_points.console =>
              /\ Launchers(EasyInstall) = 1
              /\ Launchers(EasyInstall \o <<"-">> \o MajorMinor) = 1
              /\ \A n \in Range(LauncherNames) :
                     VersionQualified(n, EasyInstall, <<"-">>) =>
                         n = EasyInstall \o <<"-">> \o MajorMinor
        /\ \A n \in DOMAIN entry_points.console \cup DOMAIN entry_points.gui :
              ~Reserved(n) => Launchers(n) = 1

\* The metadata directories of the package in the archive: the top directories named
\* {name}-{version}.dist-info or {name}.dist-info for the name of the package
PackageInfoDirs ==
    {d \in SubDirs(archive, <<>>) :
        /\ DistInfoMatches(d)
        /\ Lower(DistInfoName(d)) = Lower(ReplaceChar(ProjectName, "-", "_"))}

\* C6: move_wheel_files aborts, without rewriting RECORD or generating launchers,
\* whenever the archive does not hold exactly one metadata directory of the package
\* (none: not found; several: multiple), and never aborts for this reason when it
\* holds exactly one, whatever else it holds.
C6_AbortsIffNotOneInfoDir ==
    /\ Cardinality(PackageInfoDirs) # 1 =>
          /\ pc \in {"start", "base_done", "aborted"}
          /\ generated = <<>>
          /\ \A f \in DOMAIN disk : f[Len(f)] = RecordName => disk[f] = archive[RecordPath]
    /\ (pc = "aborted" /\ Cardinality(PackageInfoDirs) = 0) =>
          error = ".dist-info directory not found"
    /\ (pc = "aborted" /\ Cardinality(PackageInfoDirs) > 1) =>
          error = "Multiple .dist-info directories"
    /\ Cardinality(PackageInfoDirs) = 1 => pc # "aborted"

\* C7: the map from archive paths to installed paths is one to one, and the rewritten
\* RECORD holds no two rows with the same path.
C7_InstalledMapOneToOne ==
    /\ \A a, b \in DOMAIN installed : installed[a] = installed[b] => a = b
    /\ pc = "done" =>
          \A i, j \in DOMAIN InstalledRows :
              InstalledRows[i].path = InstalledRows[j].path => i = j

\* C10: whatever the order of the subdirectories, a file of a category other than
\* scripts is moved into scheme[category], neither skipped by the filter nor rewritten
\* by the fixer.
C10_HooksOnlyOnScripts ==
    AfterScripts =>
        \A p \in DOMAIN archive :
            (Len(p) > 2 /\ EndsWith(p[1], DataSuffix) /\ p[2] # CatScripts) =>
                /\ (Scheme[p[2]] \o SubSeq(p, 3, Len(p))) \in DOMAIN disk
                /\ disk[Scheme[p[2]] \o SubSeq(p, 3, Len(p))] = archive[p]
                /\ p \notin DOMAIN wheeldir

----------------------------------------------------------------------------
\* A Wheel is made from a filename and asked about a list of supported tags
InitTags ==
    /\ tg_pyver \in PyverGroups
    /\ tg_abi \in AbiGroups
    /\ tg_plat \in PlatGroups
    /\ tg_tags \in SeqsUpTo(TagUniverse, MaxTags)
    /\ tg_wheel = NoWheel /\ tg_supported = <<>> /\ tg_index = <<>> /\ tg_called = {}
    /\ un_rows = <<>> /\ un_i = 1 /\ un_pend = <<>> /\ un_seen = {} /\ un_out = <<>>
    /\ un_pc = "idle"
    /\ bd_reqs = <<>> /\ bd_i = 1 /\ bd_raised = <<>> /\ bd_built = <<>>
    /\ build_success = <<>> /\ build_failure = <<>> /\ bd_ret = <<>> /\ bd_pc = "idle"
    /\ archive = <<>> /\ entry_points = NoEntryPoints /\ sys_version = <<>>
    /\ wheeldir = <<>> /\ disk = <<>> /\ lib_dir = <<>> /\ info_dir = <<>> /\ data_dirs = <<>>
    /\ installed = <<>> /\ changed = {} /\ generated = <<>> /\ console = <<>> /\ gui = <<>>
    /\ dd_i = 1 /\ dd_entered = FALSE /\ sub_left = {} /\ filter = FALSE
    /\ row_i = 1 /\ gen_i = 1 /\ inst_done = {} /\ pc = "idle" /\ error = "none"

SpecTags == InitTags /\ [][TagsNext]_vars

\* uninstallation_paths is iterated over the rows of a RECORD
InitUninstall ==
    /\ un_rows \in SeqsUpTo(RowPaths, MaxRows)
    /\ un_i = 1 /\ un_pend = <<>> /\ un_seen = {} /\ un_out = <<>>
    /\ un_pc = "running"
    /\ tg_pyver = <<>> /\ tg_abi = <<>> /\ tg_plat = <<>> /\ tg_tags = <<>>
    /\ tg_wheel = NoWheel /\ tg_supported = <<>> /\ tg_index = <<>> /\ tg_called = {}
    /\ bd_reqs = <<>> /\ bd_i = 1 /\ bd_raised = <<>> /\ bd_built = <<>>
    /\ build_success = <<>> /\ build_failure = <<>> /\ bd_ret = <<>> /\ bd_pc = "idle"
    /\ archive = <<>> /\ entry_points = NoEntryPoints /\ sys_version = <<>>
    /\ wheeldir = <<>> /\ disk = <<>> /\ lib_dir = <<>> /\ info_dir = <<>> /\ data_dirs = <<>>
    /\ installed = <<>> /\ changed = {} /\ generated = <<>> /\ console = <<>> /\ gui = <<>>
    /\ dd_i = 1 /\ dd_entered = FALSE /\ sub_left = {} /\ filter = FALSE
    /\ row_i = 1 /\ gen_i = 1 /\ inst_done = {} /\ pc = "idle" /\ error = "none"

SpecUninstall == InitUninstall /\ [][UninstallNext]_vars

\* WheelBuilder.build runs over the requirements of a prepared requirement set
InitBuild ==
    /\ bd_reqs \in SeqsUpTo(Reqs, MaxReqs)
    /\ bd_i = 1 /\ bd_raised = <<>> /\ bd_built = <<>>
    /\ build_success = <<>> /\ build_failure = <<>> /\ bd_ret = <<>> /\ bd_pc = "loop"
    /\ archive = <<>> /\ entry_points = NoEntryPoints /\ sys_version = <<>>
    /\ wheeldir = <<>> /\ disk = <<>> /\ lib_dir = <<>> /\ info_dir = <<>> /\ data_dirs = <<>>
    /\ installed = <<>> /\ changed = {} /\ generated = <<>> /\ console = <<>> /\ gui = <<>>
    /\ dd_i = 1 /\ dd_entered = FALSE /\ sub_left = {} /\ filter = FALSE
    /\ row_i = 1 /\ gen_i = 1 /\ inst_done = {} /\ pc = "idle" /\ error = "none"
    /\ tg_pyver = <<>> /\ tg_abi = <<>> /\ tg_plat = <<>> /\ tg_tags = <<>>
    /\ tg_wheel = NoWheel /\ tg_supported = <<>> /\ tg_index = <<>> /\ tg_called = {}
    /\ un_rows = <<>> /\ un_i = 1 /\ un_pend = <<>> /\ un_seen = {} /\ un_out = <<>>
    /\ un_pc = "idle"

SpecBuild == InitBuild /\ [][BuildNext]_vars

\* move_wheel_files is run on an unpacked archive: either any layout of at most MaxFiles
\* optional files with or without the metadata directory, RECORD listing every file or
\* all but the module, declaring no entry point or foo; or the metadata directory
\* alone with any choice of at most MaxEntries console entry points, under either Python
InitInstall ==
    /\ \/ \E hasInfo \in BOOLEAN, opt \in SUBSET OptionalFiles, pure \in BOOLEAN,
              eps \in {{}, {Foo}}, unl \in SUBSET {ModulePath} :
             /\ Cardinality(opt) <= MaxFiles
             /\ unl \subseteq opt
             /\ archive = Archive(opt \cup (IF hasInfo THEN DistInfoFiles ELSE {})
                                      \cup (IF hasInfo /\ eps # {} THEN {EntryPointsPath} ELSE {}),
                                  unl, pure)
             /\ entry_points = [console |-> Declared(IF hasInfo THEN eps ELSE {}),
                                gui |-> <<>>]
             /\ sys_version = SysVersion33
       \/ \E cons \in SUBSET ConsoleNames, gu \in SUBSET GuiNames,
              version \in {SysVersion33, SysVersion310} :
             /\ Cardinality(cons) <= MaxEntries
             /\ cons \cup gu # {}
             /\ archive = Archive(DistInfoFiles \cup {EntryPointsPath}, {}, TRUE)
             /\ entry_points = [console |-> Declared(cons), gui |-> Declared(gu)]
             /\ sys_version = version
    /\ wheeldir = archive
    /\ disk = <<>> /\ lib_dir = <<>> /\ info_dir = <<>> /\ data_dirs = <<>>
    /\ installed = <<>> /\ changed = {} /\ generated = <<>> /\ console = <<>> /\ gui = <<>>
    /\ dd_i = 1 /\ dd_entered = FALSE /\ sub_left = {} /\ filter = FALSE
    /\ row_i = 1 /\ gen_i = 1 /\ inst_done = {} /\ pc = "start" /\ error = "none"
    /\ tg_pyver = <<>> /\ tg_abi = <<>> /\ tg_plat = <<>> /\ tg_tags = <<>>
    /\ tg_wheel = NoWheel /\ tg_supported = <<>> /\ tg_index = <<>> /\ tg_called = {}
    /\ un_rows = <<>> /\ un_i = 1 /\ un_pend = <<>> /\ un_seen = {} /\ un_out = <<>>
    /\ un_pc = "idle"
    /\ bd_reqs = <<>> /\ bd_i = 1 /\ bd_raised = <<>> /\ bd_built = <<>>
    /\ build_success = <<>> /\ build_failure = <<>> /\ bd_ret = <<>> /\ bd_pc = "idle"

SpecInstall == InitInstall /\ [][InstallNext]_vars

====
